---------------------------- MODULE Spec2Model ----------------------------
(*************************************************************************)
(* Real-time media pipeline of the KinetiQ live coach                    *)
(* (src/components/LiveCoach.tsx, the component defined from line 634).  *)
(*                                                                       *)
(* Two specifications share the variables:                               *)
(*   SpecPlayback  the inbound side of a live session: onmessage, the    *)
(*                 PCM decode await, the gapless scheduling of audio     *)
(*                 buffers on the output AudioContext clock, barge-in.   *)
(*   Spec          the session life cycle of the mounted component:      *)
(*                 device acquisition, the handshake timer, onopen and   *)
(*                 the two taps, mute, onerror/onclose, cleanup, reset.  *)
(*   SpecUnmount   Spec with the unmount of the component.               *)
(*   SpecMonitor   the smart-play monitor of the result page             *)
(*                 (src/unnamed/part_004, ResultPage): the animation     *)
(*                 frame callback, the dwell timer, the toggle and the   *)
(*                 native controls of the video.                         *)
(*                                                                       *)
(* Output audio time is counted in integer ticks of the AudioContext     *)
(* clock, video time in tenths of a second.                              *)
(* The handlers of one handleStartSession call close over the React      *)
(* state of the render in which the call was made; the model keeps these *)
(* captured values per session (capActive, capMuted, capAudio).          *)
(*************************************************************************)
EXTENDS Integers, Sequences, FiniteSets, TLC

\* ---- bounds of the model ----
\* the output clock advances up to this tick
MaxClock == 2
\* inbound messages delivered in one behaviour
MaxPackets == 3
\* handleStartSession invocations in one behaviour
MaxSessions == 2
\* enableCamera invocations in one behaviour
MaxAcquire == 2

\* sampling steps of played video between two animation frames
MaxTickGap == 2
\* pauses, seeks, jumps, replays and disablings by the user in one behaviour
MaxDisturb == 1
\* length of the event list
MaxEvents == 2
\* video.duration, in tenths of a second
VideoDuration == 40

\* AudioBuffer.duration of a decoded packet, in ticks
Durations == {1, 2}
\* mic level of a captured block: 0 silent, 1 above the 0.01 threshold
Levels == {0, 1}

\* cutAt of a source that stop() never cut short
NoCut == 0 - 1

VARIABLES
    \* --- output audio (refs and state of the component) ---
    clock,               \* outputAudioCtx.current.currentTime
    nextStartTimeRef,    \* nextStartTimeRef.current
    sources,             \* every AudioBufferSourceNode created, in creation order
    audioSourcesRef,     \* audioSourcesRef.current: indices into sources
    isAiTalking,         \* React state isAiTalking
    pending,             \* onmessage activations suspended at the decode await
    delivered,           \* number of onmessage invocations so far
    flushes,             \* number of interruption flushes run
    lastFlushMsg,        \* number of the message whose interrupted block ran last
    preFlushNext,        \* nextStartTimeRef.current just before the last flush
    freshFlush,          \* a flush has run and no buffer was scheduled since
    \* --- session (React state) ---
    isCameraEnabled, hasStarted, isActive, isConnecting, error,
    isMuted, audioInputAvailable, micLevel, isTransmitting,
    \* --- session (refs) ---
    streamRef, frameIntervalRef, connectTimeoutRef, audioCtxRef,
    scriptProcessorRef, sessionPromiseRef,
    \* --- environment of the session ---
    streams,             \* every MediaStream acquired: [audio, live]
    acqs,                \* enableCamera invocations awaiting getUserMedia
    acquired,            \* number of enableCamera invocations so far
    sessions,            \* every handleStartSession call: closure and transport
    timers,              \* armed handshake timers (by session)
    processors,          \* ScriptProcessor nodes created: [session, ctx, stream]
    intervals,           \* running frame intervals (by session)
    closedCtx,           \* audio contexts that were closed
    lastPacket,          \* what the most recent tap callback did
    \* --- life of the component ---
    mounted,             \* the component is mounted
    \* --- smart-play monitor of the result page ---
    events,              \* analysisResult.timestamps: the timestamp of each event
    videoTime,           \* video.currentTime
    videoPaused,         \* video.paused
    smartPlayEnabled,    \* React state smartPlayEnabled
    currentDisplayFeedback, \* index of the event presented, 0 for null
    processedTimestamps, \* processedTimestamps.current
    lastCheckTimeRef,    \* lastCheckTimeRef.current
    resumeTimer,         \* time left on the armed dwell timer, or NoTimer
    sinceFrame,          \* sampling steps played since the last animation frame
    disturbed,           \* pauses, seeks, jumps, replays and disablings so far
    \* --- annotation rendering (drawAnnotationsOnCanvas) ---
    canvas,              \* canvas.width and canvas.height, in pixels
    item,                \* the annotation drawn: x, y, label_side, text width
    box,                 \* the label box computed for it, or NoBox
    \* --- capture resampling (audioResample) ---
    inputData,           \* the Float32Array of a captured block, in SampleScale units
    sampleRate,          \* ctx.sampleRate of the capture context
    resampledData,       \* the Int16Array returned, or NoData
    reads,               \* the indices of inputData the call has read
    \* --- annotation batch of the analysis (handleAnalyze) ---
    timestamps,          \* result.timestamps: the timestamp of each entry
    scanIndex,           \* i of the for loop
    outcomes,            \* what generateVisualCorrection did for each entry so far
    updatedTimestamps,   \* updatedTimestamps
    currentScreen,       \* React state currentScreen
    \* --- transcript of the live session ---
    transcripts,         \* React state transcripts: [source, text]
    deltas               \* every outputTranscription.text delivered, in order

pvars == <<clock, nextStartTimeRef, sources, audioSourcesRef, isAiTalking,
           pending, delivered, flushes, lastFlushMsg, preFlushNext, freshFlush>>

uivars == <<isCameraEnabled, hasStarted, isActive, isConnecting, error,
            isMuted, audioInputAvailable, micLevel, isTransmitting>>

refvars == <<streamRef, frameIntervalRef, connectTimeoutRef, audioCtxRef,
             scriptProcessorRef, sessionPromiseRef>>

envvars == <<streams, acqs, acquired, sessions, timers, processors,
             intervals, closedCtx, lastPacket>>

lifevars == <<mounted>>

svars == <<uivars, refvars, envvars, lifevars>>

mvars == <<events, videoTime, videoPaused, smartPlayEnabled,
           currentDisplayFeedback, processedTimestamps, lastCheckTimeRef,
           resumeTimer, sinceFrame, disturbed>>

avars == <<canvas, item, box>>

rvars == <<inputData, sampleRate, resampledData, reads>>

bvars == <<timestamps, scanIndex, outcomes, updatedTimestamps, currentScreen>>

tvars == <<transcripts, deltas>>

\* the variables of the pure helpers, of the analysis page and of the
\* transcript
fvars == <<avars, rvars, bvars, tvars>>

vars == <<pvars, svars, mvars, fvars>>

-----------------------------------------------------------------------------
(* Inbound messages (LiveServerMessage.serverContent): an optional audio     *)
(* part and the interrupted flag.  audio = "bad" is a packet whose bytes are *)
(* not a whole number of 16-bit samples: new Int16Array(data.buffer) throws. *)

Messages ==
    [audio : {"ok"}, dur : Durations, interrupted : BOOLEAN]
    \cup [audio : {"bad"}, dur : {0}, interrupted : BOOLEAN]
    \cup [audio : {"none"}, dur : {0}, interrupted : {TRUE}]

\* decodeAudioData: TRUE when the decode returns a buffer, FALSE when it throws
DecodeOk(m) == m.audio = "ok"

\* the await at the decode is a microtask: decodeAudioData awaits nothing, so
\* the continuation runs before the event loop takes the next task
MacrotaskReadyAlways(q) == TRUE

MacrotaskReady(q) == q = <<>>

\* if (nextStartTimeRef.current < now) nextStartTimeRef.current = now
ScheduleStartNow(next, now) == now

ScheduleStart(next, now) == IF next < now THEN now ELSE next

\* nextStartTimeRef.current += audioBuffer.duration
AdvanceNextStale(start, d) == start

AdvanceNext(start, d) == start + d

\* the sources an interruption stops: audioSourcesRef.current.forEach(s => s.stop())
InterruptTargetsFuture(srcs, set, now) == {s \in set : srcs[s].start > now}

InterruptTargets(srcs, set, now) == set

\* audioSourcesRef.current.clear()
ClearedKeep(set) == set

Cleared(set) == {}

\* nextStartTimeRef.current = 0
ResetNextStartKeep(next) == next

ResetNextStart(next) == 0

\* AudioBufferSourceNode.stop(): cuts the source unless it has already played out
StopSource(src, now) ==
    IF src.cutAt = NoCut /\ now < src.start + src.dur
    THEN [src EXCEPT !.cutAt = now]
    ELSE src

StopAll(srcs, targets, now) ==
    [i \in 1..Len(srcs) |-> IF i \in targets THEN StopSource(srcs[i], now) ELSE srcs[i]]

\* the source has stopped producing sound: played to its end, or was cut
Finished(src, now) == src.cutAt # NoCut \/ src.start + src.dur <= now

\* result of the scheduling block (lines 922-929) for a decoded buffer
NewSource(p, now) ==
    LET start == ScheduleStart(nextStartTimeRef, now)
    IN [start |-> start, dur |-> p.msg.dur, cutAt |-> NoCut, ended |-> FALSE,
        now |-> now, prevNext |-> nextStartTimeRef,
        nextAfter |-> AdvanceNext(start, p.msg.dur),
        dClock |-> p.dClock, msgNo |-> p.msgNo, flushedBy |-> lastFlushMsg,
        ctx |-> audioCtxRef,
        sFlushes |-> flushes,
        afterFlush |-> freshFlush, preFlushNext |-> preFlushNext]

\* the interrupted block (lines 936-941), applied to the state (srcs, set)
Interrupt(srcs, set, next, msgNo) ==
    /\ sources' = StopAll(srcs, InterruptTargets(srcs, set, clock), clock)
    /\ audioSourcesRef' = Cleared(set)
    /\ nextStartTimeRef' = ResetNextStart(next)
    /\ isAiTalking' = FALSE
    /\ flushes' = flushes + 1
    /\ lastFlushMsg' = msgNo
    /\ preFlushNext' = next
    /\ freshFlush' = TRUE

\* onmessage up to the await (lines 905-921), or the whole handler when the
\* message has no audio part
OnMessage(m) ==
    /\ MacrotaskReady(pending)
    /\ delivered < MaxPackets
    /\ delivered' = delivered + 1
    /\ IF m.audio # "none" /\ audioCtxRef # 0
       THEN /\ isAiTalking' = TRUE
            /\ pending' = Append(pending,
                   [msg |-> m, dClock |-> clock, msgNo |-> delivered + 1])
            /\ UNCHANGED <<sources, audioSourcesRef, nextStartTimeRef,
                           flushes, lastFlushMsg, preFlushNext, freshFlush>>
       ELSE IF m.interrupted
            THEN /\ Interrupt(sources, audioSourcesRef, nextStartTimeRef,
                              delivered + 1)
                 /\ UNCHANGED pending
            ELSE UNCHANGED <<sources, audioSourcesRef, nextStartTimeRef,
                             isAiTalking, flushes, lastFlushMsg, preFlushNext,
                             freshFlush, pending>>
    /\ UNCHANGED <<clock, svars, mvars, fvars>>

\* onmessage after the await (lines 922-941): schedule the buffer, then the
\* interrupted block.  A decode that threw rejects the handler's promise and
\* nothing after line 921 runs.
DecodeResume ==
    /\ pending # <<>>
    /\ LET p == Head(pending)
           src == NewSource(p, clock)
           id == Len(sources) + 1
       IN /\ pending' = Tail(pending)
          /\ IF ~DecodeOk(p.msg)
             THEN UNCHANGED <<sources, audioSourcesRef, nextStartTimeRef,
                              isAiTalking, flushes, lastFlushMsg,
                              preFlushNext, freshFlush>>
             ELSE IF p.msg.interrupted
                  THEN Interrupt(Append(sources, src),
                                 audioSourcesRef \cup {id}, src.nextAfter,
                                 p.msgNo)
                  ELSE /\ sources' = Append(sources, src)
                       /\ audioSourcesRef' = audioSourcesRef \cup {id}
                       /\ nextStartTimeRef' = src.nextAfter
                       /\ freshFlush' = FALSE
                       /\ UNCHANGED <<isAiTalking, flushes, lastFlushMsg,
                                      preFlushNext>>
    /\ UNCHANGED <<clock, delivered, svars, mvars, fvars>>

\* source.onended (lines 930-933): fires once the source played out or was stopped
OnEnded(s) ==
    /\ MacrotaskReady(pending)
    /\ s \in 1..Len(sources)
    /\ ~sources[s].ended
    /\ Finished(sources[s], clock)
    /\ sources' = [sources EXCEPT ![s].ended = TRUE]
    /\ audioSourcesRef' = audioSourcesRef \ {s}
    /\ isAiTalking' = IF audioSourcesRef' = {} THEN FALSE ELSE isAiTalking
    /\ UNCHANGED <<clock, nextStartTimeRef, pending, delivered, flushes,
                   lastFlushMsg, preFlushNext, freshFlush, svars, mvars, fvars>>

\* the audio thread advances currentTime, at any point of the control thread
AdvanceClock ==
    /\ clock < MaxClock
    /\ audioCtxRef # 0
    /\ clock' = clock + 1
    /\ UNCHANGED <<nextStartTimeRef, sources, audioSourcesRef, isAiTalking,
                   pending, delivered, flushes, lastFlushMsg, preFlushNext,
                   freshFlush, svars, mvars, fvars>>

InitOutput ==
    /\ clock = 0
    /\ nextStartTimeRef = 0
    /\ sources = <<>>
    /\ audioSourcesRef = {}
    /\ isAiTalking = FALSE
    /\ pending = <<>>
    /\ delivered = 0
    /\ flushes = 0
    /\ lastFlushMsg = 0
    /\ preFlushNext = 0
    /\ freshFlush = FALSE

-----------------------------------------------------------------------------
(* Session life cycle.                                                       *)

NoPacket ==
    [tap |-> "none", stream |-> 0, sent |-> FALSE, level |-> 0]

CameraErrors == {"denied", "nocamera", "camera"}
TransportErrors == {"notFound", "other", "noMessage"}

\* the error recorded by onerror (lines 946-953): the entitlement message
\* when e.message includes "Requested entity was not found", the
\* interrupted-stream message otherwise (also when e.message is undefined)
ErrorKindSingle(e) == "dropped"

ErrorKind(e) == IF e = "notFound" THEN "modelNotFound" ELSE "dropped"

Max(a, b) == IF a >= b THEN a ELSE b

Min(a, b) == IF a <= b THEN a ELSE b

\* a state setter (useState, lines 639-651): a no-op once the component is
\* unmounted
SetState(isMounted, new, old) == IF isMounted THEN new ELSE old

\* track.stop() on every track of the stream held in streamRef
StopStream(strs, ref) ==
    [i \in 1..Len(strs) |-> IF i = ref THEN [strs[i] EXCEPT !.live = FALSE] ELSE strs[i]]

\* setAudioInputAvailable(hasAudio) of handleStreamSuccess
AudioAvailableAlways(hasAudio) == TRUE

AudioAvailable(hasAudio) == hasAudio

\* handleStreamSuccess (lines 750-764)
HandleStreamSuccess(hasAudio) ==
    /\ streams' = Append(streams, [audio |-> hasAudio, live |-> TRUE])
    /\ streamRef' = Len(streams) + 1
    /\ isCameraEnabled' = SetState(mounted, TRUE, isCameraEnabled)
    /\ error' = SetState(mounted, "none", error)
    /\ audioInputAvailable' =
           SetState(mounted, AudioAvailable(hasAudio), audioInputAvailable)

\* enableCamera up to the first getUserMedia await (lines 766-781); the
\* Enable Camera button is rendered while !hasStarted && !isCameraEnabled and
\* is covered by the error overlay while error is set
EnableCamera ==
    /\ mounted
    /\ ~hasStarted /\ ~isCameraEnabled /\ error = "none"
    /\ acquired < MaxAcquire
    /\ acquired' = acquired + 1
    /\ error' = "none"
    /\ streams' = StopStream(streams, streamRef)
    /\ streamRef' = 0
    /\ acqs' = [acqs EXCEPT !.first = @ + 1]
    /\ UNCHANGED <<pvars, mvars, fvars, lifevars, isCameraEnabled, hasStarted, isActive, isConnecting,
                   isMuted, audioInputAvailable, micLevel, isTransmitting,
                   frameIntervalRef, connectTimeoutRef, audioCtxRef,
                   scriptProcessorRef, sessionPromiseRef, sessions, timers,
                   processors, intervals, closedCtx, lastPacket>>

\* the audio+video request resolves (lines 781-785)
AcquireAV ==
    /\ acqs.first > 0
    /\ acqs' = [acqs EXCEPT !.first = @ - 1]
    /\ HandleStreamSuccess(TRUE)
    /\ UNCHANGED <<pvars, mvars, fvars, lifevars, hasStarted, isActive, isConnecting, isMuted,
                   micLevel, isTransmitting, frameIntervalRef,
                   connectTimeoutRef, audioCtxRef, scriptProcessorRef,
                   sessionPromiseRef, acquired, sessions, timers, processors,
                   intervals, closedCtx, lastPacket>>

\* the audio+video request rejects: retry video-only (lines 786-791)
AcquireAVFails ==
    /\ acqs.first > 0
    /\ acqs' = [acqs EXCEPT !.first = @ - 1, !.retry = @ + 1]
    /\ UNCHANGED <<pvars, mvars, fvars, lifevars, uivars, refvars, streams, acquired, sessions,
                   timers, processors, intervals, closedCtx, lastPacket>>

\* the video-only retry resolves (lines 788-792)
AcquireVideoOnly ==
    /\ acqs.retry > 0
    /\ acqs' = [acqs EXCEPT !.retry = @ - 1]
    /\ HandleStreamSuccess(FALSE)
    /\ UNCHANGED <<pvars, mvars, fvars, lifevars, hasStarted, isActive, isConnecting, isMuted,
                   micLevel, isTransmitting, frameIntervalRef,
                   connectTimeoutRef, audioCtxRef, scriptProcessorRef,
                   sessionPromiseRef, acquired, sessions, timers, processors,
                   intervals, closedCtx, lastPacket>>

\* the video-only retry rejects too (lines 793-802)
AcquireFails(kind) ==
    /\ acqs.retry > 0
    /\ acqs' = [acqs EXCEPT !.retry = @ - 1]
    /\ error' = SetState(mounted, kind, error)
    /\ UNCHANGED <<pvars, mvars, fvars, lifevars, isCameraEnabled, hasStarted, isActive, isConnecting,
                   isMuted, audioInputAvailable, micLevel, isTransmitting,
                   refvars, streams, acquired, sessions, timers, processors,
                   intervals, closedCtx, lastPacket>>

\* handleStartSession (lines 810-980) of the render in which the Initialize
\* Link button was clicked (rendered while !hasStarted && isCameraEnabled).
\* ok = FALSE: the try block throws before the contexts exist (line 834).
\* The branch of lines 811-817 is not taken: see CameraEnabledHasStream.
\* The output context is a new AudioContext (line 837), whose currentTime
\* starts at 0.
HandleStartSession(ok) ==
    /\ mounted
    /\ ~hasStarted /\ isCameraEnabled /\ error = "none"
    /\ Len(sessions) < MaxSessions
    /\ LET k == Len(sessions) + 1
       IN /\ hasStarted' = TRUE
          /\ timers' = timers \cup {k}
          /\ connectTimeoutRef' = k
          /\ sessions' = Append(sessions,
                 [state |-> IF ok THEN "connecting" ELSE "failed",
                  capActive |-> isActive, capMuted |-> isMuted,
                  capAudio |-> audioInputAvailable])
          /\ IF ok
             THEN /\ isConnecting' = TRUE
                  /\ error' = "none"
                  /\ audioCtxRef' = k
                  /\ sessionPromiseRef' = k
                  /\ clock' = 0
             ELSE /\ isConnecting' = FALSE
                  /\ error' = "startFailed"
                  /\ UNCHANGED <<audioCtxRef, sessionPromiseRef, clock>>
    /\ UNCHANGED <<nextStartTimeRef, sources, audioSourcesRef, isAiTalking,
                   pending, delivered, flushes, lastFlushMsg, preFlushNext,
                   freshFlush, mvars, fvars, lifevars,
                   isCameraEnabled, isActive, isMuted,
                   audioInputAvailable, micLevel, isTransmitting, streamRef,
                   frameIntervalRef, scriptProcessorRef, streams, acqs,
                   acquired, processors, intervals, closedCtx, lastPacket>>

\* the callback of the handshake timer (lines 825-830); isActive is the value
\* captured by the handleStartSession call that armed it
HandshakeTimeout(k) ==
    /\ k \in timers
    /\ timers' = timers \ {k}
    /\ IF ~sessions[k].capActive
       THEN /\ error' = SetState(mounted, "timeout", error)
            /\ isConnecting' = SetState(mounted, FALSE, isConnecting)
       ELSE UNCHANGED <<error, isConnecting>>
    /\ UNCHANGED <<pvars, mvars, fvars, lifevars, isCameraEnabled, hasStarted, isActive, isMuted,
                   audioInputAvailable, micLevel, isTransmitting, refvars,
                   streams, acqs, acquired, sessions, processors, intervals,
                   closedCtx, lastPacket>>

\* onopen (lines 845-903) of session k.  createMediaStreamSource throws on a
\* stream without an audio track, which ends the callback before the frame
\* interval is set.
OnOpen(k) ==
    /\ k \in 1..Len(sessions)
    /\ sessions[k].state = "connecting"
    /\ sessions' = [sessions EXCEPT ![k].state = "open"]
    /\ timers' = timers \ {connectTimeoutRef}
    /\ isConnecting' = SetState(mounted, FALSE, isConnecting)
    /\ isActive' = SetState(mounted, TRUE, isActive)
    /\ IF sessions[k].capAudio /\ streamRef # 0 /\ audioCtxRef # 0
       THEN IF streams[streamRef].audio
            THEN /\ processors' = Append(processors,
                        [session |-> k, ctx |-> audioCtxRef,
                         stream |-> streamRef, connected |-> TRUE])
                 /\ scriptProcessorRef' = Len(processors) + 1
                 /\ intervals' = intervals \cup {k}
                 /\ frameIntervalRef' = k
            ELSE UNCHANGED <<processors, scriptProcessorRef, intervals,
                             frameIntervalRef>>
       ELSE /\ intervals' = intervals \cup {k}
            /\ frameIntervalRef' = k
            /\ UNCHANGED <<processors, scriptProcessorRef>>
    /\ UNCHANGED <<pvars, mvars, fvars, lifevars, isCameraEnabled, hasStarted, error, isMuted,
                   audioInputAvailable, micLevel, isTransmitting, streamRef,
                   connectTimeoutRef, audioCtxRef, sessionPromiseRef, streams,
                   acqs, acquired, closedCtx, lastPacket>>

\* processor.onaudioprocess (lines 862-882) of processor p; isMuted is the
\* value captured by the handleStartSession call whose onopen created p
OnAudioProcess(p, level) ==
    /\ p \in 1..Len(processors)
    /\ processors[p].connected
    /\ processors[p].ctx \notin closedCtx
    /\ level \in (IF streams[processors[p].stream].live THEN Levels ELSE {0})
    /\ LET k == processors[p].session
       IN IF sessions[k].capMuted
          THEN /\ micLevel' = SetState(mounted, 0, micLevel)
               /\ lastPacket' = [tap |-> "audio",
                      stream |-> processors[p].stream, sent |-> FALSE,
                      level |-> 0]
               /\ UNCHANGED isTransmitting
          ELSE /\ micLevel' = SetState(mounted, level, micLevel)
               /\ isTransmitting' =
                      SetState(mounted, level = 1, isTransmitting)
               /\ lastPacket' = [tap |-> "audio",
                      stream |-> processors[p].stream, sent |-> TRUE,
                      level |-> level]
    /\ UNCHANGED <<pvars, mvars, fvars, lifevars, isCameraEnabled, hasStarted, isActive, isConnecting,
                   error, isMuted, audioInputAvailable, refvars, streams, acqs,
                   acquired, sessions, timers, processors, intervals, closedCtx>>

\* the frame interval callback (lines 889-902) of session k; it returns at
\* line 890 when the video element is gone (videoRef.current is null after
\* unmount)
OnFrameInterval(k) ==
    /\ k \in intervals
    /\ lastPacket' = [tap |-> "frame", stream |-> 0, sent |-> mounted,
           level |-> 0]
    /\ UNCHANGED <<pvars, mvars, fvars, lifevars, uivars, refvars, streams, acqs, acquired, sessions,
                   timers, processors, intervals, closedCtx>>

\* the mute button (lines 1075-1078), rendered while isActive
ToggleMute ==
    /\ mounted
    /\ isActive /\ error = "none"
    /\ isMuted' = ~isMuted
    /\ UNCHANGED <<pvars, mvars, fvars, lifevars, isCameraEnabled, hasStarted, isActive, isConnecting,
                   error, audioInputAvailable, micLevel, isTransmitting,
                   refvars, envvars>>

\* onerror (lines 944-956) of session k
OnError(k, e) ==
    /\ k \in 1..Len(sessions)
    /\ sessions[k].state \in {"connecting", "open"}
    /\ sessions' = [sessions EXCEPT ![k].state = "errored"]
    /\ error' = SetState(mounted, ErrorKind(e), error)
    /\ isConnecting' = SetState(mounted, FALSE, isConnecting)
    /\ isActive' = SetState(mounted, FALSE, isActive)
    /\ UNCHANGED <<pvars, mvars, fvars, lifevars, isCameraEnabled, hasStarted, isMuted,
                   audioInputAvailable, micLevel, isTransmitting, refvars,
                   streams, acqs, acquired, timers, processors, intervals,
                   closedCtx, lastPacket>>

\* onclose (lines 958-961) of session k
OnClose(k) ==
    /\ k \in 1..Len(sessions)
    /\ sessions[k].state \in {"open", "errored"}
    /\ sessions' = [sessions EXCEPT ![k].state = "closed"]
    /\ isActive' = SetState(mounted, FALSE, isActive)
    /\ UNCHANGED <<pvars, mvars, fvars, lifevars, isCameraEnabled, hasStarted, isConnecting, error,
                   isMuted, audioInputAvailable, micLevel, isTransmitting,
                   refvars, streams, acqs, acquired, timers, processors,
                   intervals, closedCtx, lastPacket>>

\* AudioContext.close() as cleanup calls it (lines 733-734): on a context
\* that is already closed the returned promise is rejected with
\* InvalidStateError, and cleanup attaches no handler to it
CloseRejects(ctx, closed) == ctx \in closed

\* cleanup (lines 722-744)
Cleanup ==
    /\ intervals' = intervals \ {frameIntervalRef}
    /\ timers' = timers \ {connectTimeoutRef}
    /\ streams' = StopStream(streams, streamRef)
    /\ streamRef' = 0
    /\ sources' = StopAll(sources, audioSourcesRef, clock)
    /\ closedCtx' = closedCtx \cup ({audioCtxRef} \ {0})
    /\ processors' = [i \in 1..Len(processors) |->
                         IF i = scriptProcessorRef
                         THEN [processors[i] EXCEPT !.connected = FALSE]
                         ELSE processors[i]]
    /\ isActive' = FALSE
    /\ isConnecting' = FALSE
    /\ isCameraEnabled' = FALSE
    /\ micLevel' = 0
    /\ isTransmitting' = FALSE
    /\ sessionPromiseRef' = 0

\* handleReset (lines 982-986), the Reconnect button of the error overlay
HandleReset ==
    /\ mounted
    /\ error # "none"
    /\ Cleanup
    /\ hasStarted' = FALSE
    /\ error' = "none"
    /\ UNCHANGED <<clock, nextStartTimeRef, audioSourcesRef, isAiTalking,
                   pending, delivered, flushes, lastFlushMsg, preFlushNext,
                   freshFlush, isMuted, audioInputAvailable, frameIntervalRef,
                   connectTimeoutRef, audioCtxRef, scriptProcessorRef, acqs,
                   acquired, sessions, lastPacket, mounted, mvars, fvars>>

\* the unmount effect (lines 746-748); the parent unmounts the component on
\* onClose, bound to Cancel (line 1027) and to the X button (line 1032), both
\* covered by the error overlay while error is set.  The setters cleanup
\* calls act on state that is discarded with the component.
Unmount ==
    /\ mounted
    /\ error = "none"
    /\ Cleanup
    /\ mounted' = FALSE
    /\ UNCHANGED <<clock, nextStartTimeRef, audioSourcesRef, isAiTalking,
                   pending, delivered, flushes, lastFlushMsg, preFlushNext,
                   freshFlush, hasStarted, error, isMuted,
                   audioInputAvailable, frameIntervalRef, connectTimeoutRef,
                   audioCtxRef, scriptProcessorRef, acqs, acquired, sessions,
                   lastPacket, mvars, fvars>>

InitSession ==
    /\ isCameraEnabled = FALSE
    /\ hasStarted = FALSE
    /\ isActive = FALSE
    /\ isConnecting = FALSE
    /\ error = "none"
    /\ isMuted = FALSE
    /\ audioInputAvailable = TRUE
    /\ micLevel = 0
    /\ isTransmitting = FALSE
    /\ streamRef = 0
    /\ frameIntervalRef = 0
    /\ connectTimeoutRef = 0
    /\ audioCtxRef = 0
    /\ scriptProcessorRef = 0
    /\ sessionPromiseRef = 0
    /\ streams = <<>>
    /\ acqs = [first |-> 0, retry |-> 0]
    /\ acquired = 0
    /\ sessions = <<>>
    /\ timers = {}
    /\ processors = <<>>
    /\ intervals = {}
    /\ closedCtx = {}
    /\ lastPacket = NoPacket
    /\ mounted = TRUE

\* the session after Enable Camera, Initialize Link and Opened: the state in
\* which inbound messages are handled
LiveSession ==
    /\ isCameraEnabled = TRUE
    /\ hasStarted = TRUE
    /\ isActive = TRUE
    /\ isConnecting = FALSE
    /\ error = "none"
    /\ isMuted = FALSE
    /\ audioInputAvailable = TRUE
    /\ micLevel = 0
    /\ isTransmitting = FALSE
    /\ streamRef = 1
    /\ frameIntervalRef = 1
    /\ connectTimeoutRef = 1
    /\ audioCtxRef = 1
    /\ scriptProcessorRef = 1
    /\ sessionPromiseRef = 1
    /\ streams = <<[audio |-> TRUE, live |-> TRUE]>>
    /\ acqs = [first |-> 0, retry |-> 0]
    /\ acquired = 1
    /\ sessions = <<[state |-> "open", capActive |-> FALSE,
                     capMuted |-> FALSE, capAudio |-> TRUE]>>
    /\ timers = {}
    /\ processors = <<[session |-> 1, ctx |-> 1, stream |-> 1,
                       connected |-> TRUE]>>
    /\ intervals = {1}
    /\ closedCtx = {}
    /\ lastPacket = NoPacket
    /\ mounted = TRUE

-----------------------------------------------------------------------------
(* Smart-play monitor of the result page (src/unnamed/part_004).  Playback   *)
(* is sampled every StepTime; an animation frame runs at least every         *)
(* MaxTickGap samples of played video.                                       *)

\* the backward-seek threshold of monitorFrames, 0.5 s
BackSeek == 5
\* the dwell of the resume timer, 3000 ms
DwellTime == 30
\* jumpToTime sets the last check time 0.1 s before the event
JumpBack == 1
\* resumeTimer when no dwell timer is armed
NoTimer == 0 - 1

\* the sampling step of playback
StepTime == BackSeek

\* the timestamps of the frames the analysis may report
EventTimes == {10, 25, 35}

\* analysisResult.timestamps: in the order of the response, not sorted
EventLists == UNION {[1..n -> EventTimes] : n \in 1..MaxEvents}

\* the positions the user seeks to
SeekTargets == {t \in 0..(VideoDuration - 1) : t % StepTime = 0}

\* the branch of monitorFrames that detects a backward seek
SeekedBackAlways(curr, prev) == TRUE

SeekedBack(curr, prev) == curr < prev - BackSeek

\* processedTimestamps after the forEach of the backward-seek branch
ClearAfterNone(done, curr) == done

ClearAfter(done, curr) == {t \in done : ~(t > curr)}

\* the predicate of the find call
InRange(t, prev, curr, done) == prev <= t /\ curr >= t /\ t \notin done

\* Array.prototype.find: the index of the first element, in array order, that
\* satisfies the predicate, 0 when there is none
FindMatch(evs, prev, curr, done) ==
    LET hits == {i \in 1..Len(evs) : InRange(evs[i], prev, curr, done)}
    IN IF hits = {} THEN 0 ELSE CHOOSE i \in hits : \A j \in hits : i <= j

\* the delay the resume timer is armed with
ArmTimerNever == NoTimer

ArmTimer == DwellTime

\* the guard of monitorFrames (line 174) lets the frame poll the position
Polls == smartPlayEnabled /\ ~videoPaused

\* processedTimestamps after the backward-seek branch (lines 182-186)
FrameCleared ==
    IF SeekedBack(videoTime, lastCheckTimeRef)
    THEN ClearAfter(processedTimestamps, videoTime)
    ELSE processedTimestamps

\* the event the find call of this frame returns (lines 188-191), 0 for none
FrameMatch ==
    FindMatch(events, lastCheckTimeRef, videoTime, FrameCleared)

\* monitorFrames (lines 172-217), one animation frame
MonitorFrames ==
    /\ sinceFrame' = 0
    /\ IF ~Polls
       THEN UNCHANGED <<videoTime, videoPaused, currentDisplayFeedback,
                        processedTimestamps, lastCheckTimeRef, resumeTimer>>
       ELSE /\ IF FrameMatch # 0
               THEN /\ videoPaused' = TRUE
                    /\ videoTime' = events[FrameMatch]
                    /\ processedTimestamps' =
                           FrameCleared \cup {events[FrameMatch]}
                    /\ currentDisplayFeedback' = FrameMatch
                    /\ resumeTimer' = ArmTimer
               ELSE /\ processedTimestamps' = FrameCleared
                    /\ UNCHANGED <<videoTime, videoPaused,
                                   currentDisplayFeedback, resumeTimer>>
            /\ lastCheckTimeRef' = videoTime
    /\ UNCHANGED <<pvars, svars, fvars, events, smartPlayEnabled, disturbed>>

\* the position play() starts from (safePlay, lines 150-163): an ended video
\* starts over
PlayFrom(t) == IF t = VideoDuration THEN 0 ELSE t

\* the callback of the resume timer (lines 207-212)
ResumeTimerFires ==
    /\ resumeTimer = 0
    /\ resumeTimer' = NoTimer
    /\ currentDisplayFeedback' = 0
    /\ IF smartPlayEnabled /\ videoPaused
       THEN /\ videoPaused' = FALSE
            /\ videoTime' = PlayFrom(videoTime)
       ELSE UNCHANGED <<videoPaused, videoTime>>
    /\ UNCHANGED <<pvars, svars, fvars, events, smartPlayEnabled,
                   processedTimestamps, lastCheckTimeRef, sinceFrame,
                   disturbed>>

\* one sampling step of time: the video advances while it plays, up to its
\* duration; the armed timer runs down, and fires before time passes beyond
\* its delay
TimePasses ==
    /\ (~videoPaused /\ videoTime < VideoDuration) \/ resumeTimer # NoTimer
    /\ resumeTimer # 0
    /\ resumeTimer' = IF resumeTimer = NoTimer THEN NoTimer
                      ELSE Max(resumeTimer - StepTime, 0)
    /\ IF videoPaused
       THEN UNCHANGED <<videoTime, videoPaused, sinceFrame>>
       ELSE /\ sinceFrame < MaxTickGap
            /\ videoTime < VideoDuration
            /\ sinceFrame' = sinceFrame + 1
            /\ videoTime' = Min(videoTime + StepTime, VideoDuration)
            /\ UNCHANGED videoPaused
    /\ UNCHANGED <<pvars, svars, fvars, events, smartPlayEnabled,
                   currentDisplayFeedback, processedTimestamps,
                   lastCheckTimeRef, disturbed>>

\* a cleanup that leaves the pending timer armed
ClearResumeTimerKeep(timer) == timer

\* clearTimeout on the resume timer (lines 222 and 297)
ClearResumeTimer(timer) == NoTimer

\* the SMART COACH button (lines 294-301) and the effect cleanup its state
\* change runs (lines 220-223)
ToggleSmartPlay ==
    /\ smartPlayEnabled => disturbed < MaxDisturb
    /\ disturbed' = IF smartPlayEnabled THEN disturbed + 1 ELSE disturbed
    /\ smartPlayEnabled' = ~smartPlayEnabled
    /\ currentDisplayFeedback' = IF smartPlayEnabled THEN 0
                                 ELSE currentDisplayFeedback
    /\ resumeTimer' = ClearResumeTimer(resumeTimer)
    /\ UNCHANGED <<pvars, svars, fvars, events, videoTime, videoPaused,
                   processedTimestamps, lastCheckTimeRef, sinceFrame>>

\* the video element (line 274) at the end of the media: the task the player
\* queues on reaching the end sets paused; an animation frame may run first
VideoEnded ==
    /\ ~videoPaused
    /\ videoTime = VideoDuration
    /\ videoPaused' = TRUE
    /\ UNCHANGED <<pvars, svars, fvars, events, videoTime, smartPlayEnabled,
                   currentDisplayFeedback, processedTimestamps,
                   lastCheckTimeRef, resumeTimer, sinceFrame, disturbed>>

\* the play button of the native controls (line 278)
UserPlay ==
    /\ videoPaused
    /\ videoTime < VideoDuration
    /\ videoPaused' = FALSE
    /\ UNCHANGED <<pvars, svars, fvars, events, videoTime, smartPlayEnabled,
                   currentDisplayFeedback, processedTimestamps,
                   lastCheckTimeRef, resumeTimer, sinceFrame, disturbed>>

\* the play button on the ended video: playback starts over from 0
UserReplay ==
    /\ disturbed < MaxDisturb
    /\ videoPaused
    /\ videoTime = VideoDuration
    /\ disturbed' = disturbed + 1
    /\ videoPaused' = FALSE
    /\ videoTime' = 0
    /\ UNCHANGED <<pvars, svars, fvars, events, smartPlayEnabled,
                   currentDisplayFeedback, processedTimestamps,
                   lastCheckTimeRef, resumeTimer, sinceFrame>>

\* the pause button of the native controls
UserPause ==
    /\ disturbed < MaxDisturb
    /\ ~videoPaused
    /\ disturbed' = disturbed + 1
    /\ videoPaused' = TRUE
    /\ UNCHANGED <<pvars, svars, fvars, events, videoTime, smartPlayEnabled,
                   currentDisplayFeedback, processedTimestamps,
                   lastCheckTimeRef, resumeTimer, sinceFrame>>

\* the seek bar of the native controls
UserSeek(t) ==
    /\ disturbed < MaxDisturb
    /\ t \in SeekTargets /\ t # videoTime
    /\ disturbed' = disturbed + 1
    /\ videoTime' = t
    /\ UNCHANGED <<pvars, svars, fvars, events, videoPaused, smartPlayEnabled,
                   currentDisplayFeedback, processedTimestamps,
                   lastCheckTimeRef, resumeTimer, sinceFrame>>

\* the timeout callback of jumpToTime (lines 228-235) for event i
JumpToTime(i) ==
    /\ disturbed < MaxDisturb
    /\ i \in 1..Len(events)
    /\ disturbed' = disturbed + 1
    /\ processedTimestamps' = processedTimestamps \ {events[i]}
    /\ lastCheckTimeRef' = events[i] - JumpBack
    /\ videoTime' = events[i]
    /\ videoPaused' = FALSE
    /\ UNCHANGED <<pvars, svars, fvars, events, smartPlayEnabled,
                   currentDisplayFeedback, resumeTimer, sinceFrame>>

\* the result page before it is shown: no event list, the video at rest
IdleMonitor ==
    /\ events = <<>>
    /\ videoTime = 0
    /\ videoPaused = TRUE
    /\ smartPlayEnabled = TRUE
    /\ currentDisplayFeedback = 0
    /\ processedTimestamps = {}
    /\ lastCheckTimeRef = 0
    /\ resumeTimer = NoTimer
    /\ sinceFrame = 0
    /\ disturbed = 0

\* the result page as mounted (lines 126-141) on an analysis result
InitMonitor ==
    /\ events \in EventLists
    /\ videoTime = 0
    /\ videoPaused = TRUE
    /\ smartPlayEnabled = TRUE
    /\ currentDisplayFeedback = 0
    /\ processedTimestamps = {}
    /\ lastCheckTimeRef = 0
    /\ resumeTimer = NoTimer
    /\ sinceFrame = 0
    /\ disturbed = 0

-----------------------------------------------------------------------------
(* Label boxes of drawAnnotationsOnCanvas (geminiService.ts lines 262-298). *)
(* Lengths are in hundredths of a pixel, so that (item.x / 100) * width is   *)
(* exact.                                                                    *)

\* hundredths of a pixel in one pixel
PixelUnit == 100
\* the distance kept from an edge of the canvas, in pixels
EdgeMargin == 5
\* the smallest font size, in pixels
MinFontSize == 10

\* canvas.width and canvas.height: the size of the frame of the uploaded
\* video, which may be a narrow strip
CanvasSizes ==
    {[width |-> 640, height |-> 360], [width |-> 360, height |-> 640],
     [width |-> 160, height |-> 16]}
\* x and y of an annotation: integer percent
Percents == {0, 10, 50, 95, 100}
\* ctx.measureText(text).width, in pixels
TextWidths == {20, 150, 700}
\* label_side
Sides == {"left", "right"}

Items == [x : Percents, y : Percents, label_side : Sides, textW : TextWidths]

\* no box computed yet
NoBox == [x1 |-> 0, x2 |-> 0, y1 |-> 0, y2 |-> 0]

\* Math.max(10, Math.floor(height * 0.022))
FontSize(c) == Max(MinFontSize, (c.height * 22) \div 1000)

\* Math.floor(width * 0.012)
Padding(c) == (c.width * 12) \div 1000

\* Math.floor(width * 0.1)
ArrowOffset(c) == c.width \div 10

BoxTotalWidth(c, it) == (it.textW + 2 * Padding(c)) * PixelUnit

BoxTotalHeight(c) == (FontSize(c) + 2 * Padding(c)) * PixelUnit

\* a lower clamp that lets the value through
ClampLowNone(v, lo) == v

\* if (v < lo) v = lo
ClampLow(v, lo) == IF v < lo THEN lo ELSE v

\* an upper clamp that lets the value through
ClampHighNone(v, hi) == v

\* if (v > hi) v = hi
ClampHigh(v, hi) == IF v > hi THEN hi ELSE v

\* the body of annotations.forEach up to boxY2 (lines 269-298)
PlaceBox(c, it) ==
    LET targetX == it.x * c.width
        targetY == it.y * c.height
        boxW == BoxTotalWidth(c, it)
        boxH == BoxTotalHeight(c)
        lo == EdgeMargin * PixelUnit
        x1 == IF it.label_side = "left"
              THEN ClampLow(targetX - ArrowOffset(c) * PixelUnit - boxW, lo)
              ELSE ClampHigh(targetX + ArrowOffset(c) * PixelUnit + boxW,
                             (c.width - EdgeMargin) * PixelUnit) - boxW
        top == ClampLow(targetY - (FontSize(c) * PixelUnit) \div 2
                            - Padding(c) * PixelUnit, lo)
        y2 == ClampHigh(top + boxH, (c.height - EdgeMargin) * PixelUnit)
    IN [x1 |-> x1, x2 |-> x1 + boxW, y1 |-> y2 - boxH, y2 |-> y2]

\* one annotation of the list is laid out
DrawAnnotation ==
    /\ box = NoBox
    /\ box' = PlaceBox(canvas, item)
    /\ UNCHANGED <<pvars, svars, mvars, rvars, bvars, tvars, canvas, item>>

\* no frame is being annotated
IdlePlacer ==
    /\ canvas = [width |-> 0, height |-> 0]
    /\ item = [x |-> 0, y |-> 0, label_side |-> "left", textW |-> 0]
    /\ box = NoBox

\* a frame was loaded and an annotation of the model's answer is at hand
InitPlacer ==
    /\ canvas \in CanvasSizes
    /\ item \in Items
    /\ box = NoBox

-----------------------------------------------------------------------------
(* audioResample (LiveCoach.tsx lines 697-712).  A float sample is held as   *)
(* a whole number of SampleScale-ths.                                        *)

\* samples of a captured block
MaxLen == 5
\* a sample s stands for the float s / SampleScale
SampleScale == 10
\* targetRate
TargetRate == 16000
\* the factor of the conversion to 16 bits
Int16Factor == 32768

\* values of a captured sample: -1.0, 0, 0.1, 1.0 and 1.2
Samples == {0 - 10, 0, 1, 10, 12}
\* ctx.sampleRate of the capture context
SampleRates == {8000, 16000, 44100, 48000}

Buffers == UNION {[1..n -> Samples] : n \in 0..MaxLen}

\* no call has returned: a value no Int16Array holds
NoData == <<Int16Factor>>

\* the store of a number into an Int16Array: the fraction is dropped and the
\* integer is taken modulo 2^16 into [-32768, 32767]
ToInt16(num, den) ==
    LET whole == IF num >= 0 THEN num \div den ELSE 0 - ((0 - num) \div den)
    IN ((whole + 32768) % 65536) - 32768

\* res[i] = v * 32768
StoreSample(v) == ToInt16(v * Int16Factor, SampleScale)

\* Math.max(-1, Math.min(1, v))
ClampUnit(v) == Max(0 - SampleScale, Min(SampleScale, v))

\* a length that rounds down
NewLengthFloor(len, rate) == (len * TargetRate) \div rate

\* Math.ceil(buffer.length / ratio)
NewLength(len, rate) == (len * TargetRate + rate - 1) \div rate

\* an index that rounds up
OriginalIndexCeil(i, rate) == (i * rate + TargetRate - 1) \div TargetRate

\* Math.floor(i * ratio)
OriginalIndex(i, rate) == (i * rate) \div TargetRate

\* buffer[originalIndex] || 0: an index outside the array reads undefined
ReadSample(buffer, idx) ==
    IF idx \in 0..(Len(buffer) - 1) THEN buffer[idx + 1] ELSE 0

AudioResampleData(buffer, rate) ==
    IF rate = TargetRate
    THEN [i \in 1..Len(buffer) |-> StoreSample(buffer[i])]
    ELSE [i \in 1..NewLength(Len(buffer), rate) |->
             StoreSample(ClampUnit(ReadSample(buffer, OriginalIndex(i - 1, rate))))]

AudioResampleReads(buffer, rate) ==
    IF rate = TargetRate
    THEN 0..(Len(buffer) - 1)
    ELSE {OriginalIndex(i - 1, rate) : i \in 1..NewLength(Len(buffer), rate)}

\* one call of audioResample on a captured block (line 873)
AudioResample ==
    /\ resampledData = NoData
    /\ resampledData' = AudioResampleData(inputData, sampleRate)
    /\ reads' = AudioResampleReads(inputData, sampleRate)
    /\ UNCHANGED <<pvars, svars, mvars, avars, bvars, tvars, inputData,
                   sampleRate>>

\* no block is being resampled
IdleResampler ==
    /\ inputData = <<>>
    /\ sampleRate = TargetRate
    /\ resampledData = NoData
    /\ reads = {}

\* a block of the microphone arrived
InitResampler ==
    /\ inputData \in Buffers
    /\ sampleRate \in SampleRates
    /\ resampledData = NoData
    /\ reads = {}

-----------------------------------------------------------------------------
(* The transcript block of onmessage (LiveCoach.tsx lines 906-915).  It      *)
(* reads and writes the transcripts state only.  A text is a sequence of     *)
(* characters.                                                               *)

\* transcript deltas delivered in one behaviour
MaxDeltas == 3
\* characters of one delta
MaxText == 2

\* a letter and the punctuation marks that may end a sentence
Chars == {"a", ".", "!", "?"}

\* outputTranscription.text when it is not empty (line 906)
Texts == UNION {[1..n -> Chars] : n \in 1..MaxText}

\* String.prototype.endsWith for a single character
EndsWith(text, c) == text # <<>> /\ text[Len(text)] = c

\* the test of line 910 on the last item of the list
Coalesces(list) ==
    /\ list # <<>>
    /\ list[Len(list)].source = "ai"
    /\ ~EndsWith(list[Len(list)].text, ".")
    /\ ~EndsWith(list[Len(list)].text, "?")

\* the updater passed to setTranscripts (lines 908-914)
AddDelta(list, text) ==
    IF Coalesces(list)
    THEN [list EXCEPT ![Len(list)].text = @ \o text]
    ELSE Append(list, [source |-> "ai", text |-> text])

\* onmessage with a transcription text
OnTranscript(text) ==
    /\ Len(deltas) < MaxDeltas
    /\ transcripts' = AddDelta(transcripts, text)
    /\ deltas' = Append(deltas, text)
    /\ UNCHANGED <<pvars, svars, mvars, avars, rvars, bvars>>

\* no session has written a transcript
IdleTranscript ==
    /\ transcripts = <<>>
    /\ deltas = <<>>

\* onopen (line 850) has put the system item
InitTranscript ==
    /\ transcripts = <<[source |-> "system", text |-> <<"a", ".">>]>>
    /\ deltas = <<>>

-----------------------------------------------------------------------------
(* The annotation batch of handleAnalyze (part_001 lines 78-112).            *)

\* entries of result.timestamps
MaxFrames == 3

\* what generateVisualCorrection (geminiService.ts lines 343-358) does for a
\* frame: "ok" returns the annotated frame; "requestFails" is a rejected
\* generateContent, "imageFails" is img.onerror and "noContext" a missing 2d
\* context, all three rejecting; "parseFails" is an answer that is not JSON,
\* for which getAnnotationCoordinates returns [] and the frame is returned
\* with nothing drawn on it
Outcomes == {"ok", "requestFails", "parseFails", "imageFails", "noContext"}

Rejects(o) == o \in {"requestFails", "imageFails", "noContext"}

\* result.timestamps of an analysis: distinct timestamps in any order
AnalysedLists ==
    {s \in UNION {[1..n -> EventTimes] : n \in 0..Min(MaxFrames, Cardinality(EventTimes))} :
        \A i, j \in DOMAIN s : i # j => s[i] # s[j]}

\* a catch that drops the entry
PushFallbackNone(list, ts) == list

\* the catch of lines 106-109: updatedTimestamps.push(ts)
PushFallback(list, ts) == Append(list, [timestamp |-> ts, visualImage |-> "none"])

\* line 105: updatedTimestamps.push({ ...ts, visualImage })
PushVisual(list, ts, o) ==
    Append(list, [timestamp |-> ts,
                  visualImage |-> IF o = "ok" THEN "annotated" ELSE "plain"])

\* one iteration of the for loop (lines 79-110) with outcome o
ScanFrame(o) ==
    /\ currentScreen = "ANALYZING"
    /\ scanIndex < Len(timestamps)
    /\ scanIndex' = scanIndex + 1
    /\ outcomes' = Append(outcomes, o)
    /\ updatedTimestamps' =
           IF Rejects(o)
           THEN PushFallback(updatedTimestamps, timestamps[scanIndex + 1])
           ELSE PushVisual(updatedTimestamps, timestamps[scanIndex + 1], o)
    /\ UNCHANGED <<pvars, svars, mvars, avars, rvars, tvars, timestamps,
                   currentScreen>>

\* the end of the loop (lines 112-114): the result is published
FinishAnalysis ==
    /\ currentScreen = "ANALYZING"
    /\ scanIndex = Len(timestamps)
    /\ currentScreen' = "RESULT"
    /\ UNCHANGED <<pvars, svars, mvars, avars, rvars, tvars, timestamps, scanIndex,
                   outcomes, updatedTimestamps>>

\* no analysis is running
IdleBatch ==
    /\ timestamps = <<>>
    /\ scanIndex = 0
    /\ outcomes = <<>>
    /\ updatedTimestamps = <<>>
    /\ currentScreen = "HOME"

\* analyzeVideo has returned its result
InitBatch ==
    /\ timestamps \in AnalysedLists
    /\ scanIndex = 0
    /\ outcomes = <<>>
    /\ updatedTimestamps = <<>>
    /\ currentScreen = "ANALYZING"

\* the helpers at rest while another part of the program runs
IdleHelpers == IdlePlacer /\ IdleResampler /\ IdleBatch /\ IdleTranscript

-----------------------------------------------------------------------------
(* Specifications.                                                           *)

InitPlayback == InitOutput /\ LiveSession /\ IdleMonitor /\ IdleHelpers

NextPlayback ==
    \/ \E m \in Messages : OnMessage(m)
    \/ DecodeResume
    \/ \E s \in 1..MaxPackets : OnEnded(s)
    \/ AdvanceClock

SpecPlayback == InitPlayback /\ [][NextPlayback]_vars

Init == InitOutput /\ InitSession /\ IdleMonitor /\ IdleHelpers

Next ==
    \/ EnableCamera
    \/ AcquireAV
    \/ AcquireAVFails
    \/ AcquireVideoOnly
    \/ \E kind \in CameraErrors : AcquireFails(kind)
    \/ \E ok \in BOOLEAN : HandleStartSession(ok)
    \/ \E k \in 1..MaxSessions : HandshakeTimeout(k)
    \/ \E k \in 1..MaxSessions : OnOpen(k)
    \/ \E p \in 1..MaxSessions, level \in Levels : OnAudioProcess(p, level)
    \/ \E k \in 1..MaxSessions : OnFrameInterval(k)
    \/ ToggleMute
    \/ \E k \in 1..MaxSessions, e \in TransportErrors : OnError(k, e)
    \/ \E k \in 1..MaxSessions : OnClose(k)
    \/ HandleReset

Spec == Init /\ [][Next]_vars

\* the life cycle with the component unmounted at some point
NextUnmount ==
    \/ Next
    \/ Unmount

SpecUnmount == Init /\ [][NextUnmount]_vars

\* the transport delivers messages on an open session
Delivers == \E k \in 1..Len(sessions) : sessions[k].state = "open"

\* a live session with its output, a transport error, the Reconnect button
\* and the start of a second session in the same component; every handler is
\* a task of the event loop, which runs once the decode microtask has resumed
NextReconnect ==
    \/ \E m \in Messages : Delivers /\ OnMessage(m)
    \/ DecodeResume
    \/ \E s \in 1..MaxPackets : OnEnded(s)
    \/ AdvanceClock
    \/ \E k \in 1..MaxSessions : MacrotaskReady(pending) /\ OnError(k, "other")
    \/ MacrotaskReady(pending) /\ HandleReset
    \/ MacrotaskReady(pending) /\ EnableCamera
    \/ MacrotaskReady(pending) /\ AcquireAV
    \/ MacrotaskReady(pending) /\ HandleStartSession(TRUE)
    \/ \E k \in 1..MaxSessions : MacrotaskReady(pending) /\ OnOpen(k)

SpecReconnect == InitPlayback /\ [][NextReconnect]_vars

InitResultPage == InitOutput /\ InitSession /\ InitMonitor /\ IdleHelpers

NextMonitor ==
    \/ MonitorFrames
    \/ ResumeTimerFires
    \/ TimePasses
    \/ ToggleSmartPlay
    \/ VideoEnded
    \/ UserPlay
    \/ UserReplay
    \/ UserPause
    \/ \E t \in SeekTargets : UserSeek(t)
    \/ \E i \in 1..MaxEvents : JumpToTime(i)

SpecMonitor == InitResultPage /\ [][NextMonitor]_vars

\* the scheduling of the result page: every animation frame requests the
\* next one (lines 175 and 215), the armed timer fires, the playing video
\* advances and the player reports the end of the media
FairMonitor ==
    /\ WF_vars(MonitorFrames)
    /\ WF_vars(TimePasses)
    /\ WF_vars(ResumeTimerFires)
    /\ WF_vars(VideoEnded)

SpecMonitorFair == SpecMonitor /\ FairMonitor

\* the layout of one annotation on one frame
InitAnnotate ==
    InitOutput /\ InitSession /\ IdleMonitor /\ InitPlacer /\ IdleResampler /\ IdleBatch
        /\ IdleTranscript

NextPlacer == DrawAnnotation

SpecPlacer == InitAnnotate /\ [][NextPlacer]_vars

\* the resampling of one captured block
InitCapture ==
    InitOutput /\ InitSession /\ IdleMonitor /\ IdlePlacer /\ InitResampler /\ IdleBatch
        /\ IdleTranscript

NextResampler == AudioResample

SpecResampler == InitCapture /\ [][NextResampler]_vars

\* the annotation batch of one analysis
InitAnalyze ==
    InitOutput /\ InitSession /\ IdleMonitor /\ IdlePlacer /\ IdleResampler /\ InitBatch
        /\ IdleTranscript

NextBatch ==
    \/ \E o \in Outcomes : ScanFrame(o)
    \/ FinishAnalysis

SpecBatch == InitAnalyze /\ [][NextBatch]_vars

\* the transcript of one live session
InitCaption ==
    InitOutput /\ LiveSession /\ IdleMonitor /\ IdlePlacer /\ IdleResampler
        /\ IdleBatch /\ InitTranscript

NextTranscript == \E text \in Texts : OnTranscript(text)

SpecTranscript == InitCaption /\ [][NextTranscript]_vars

\* an armed dwell timer was armed by the current effect, whose closure holds
\* the current smartPlayEnabled: the callback may read the state instead
TimerImpliesEnabled == resumeTimer # NoTimer => smartPlayEnabled

\* Initialize Link is only offered while a stream is held, so the
\* enableCamera branch of handleStartSession (lines 811-817) is never taken
CameraEnabledHasStream == isCameraEnabled => streamRef # 0

-----------------------------------------------------------------------------
(* Properties of the playback scheduler, checked under SpecPlayback.         *)

Last(seq) == seq[Len(seq)]

\* C1: every scheduled buffer starts at max(nextStart, now), where now is the
\* output clock when it is scheduled, and scheduling leaves
\* nextStart = start + duration.
C1_SchedulingRule ==
    /\ \A i \in 1..Len(sources) :
          /\ sources[i].start = Max(sources[i].prevNext, sources[i].now)
          /\ sources[i].nextAfter = sources[i].start + sources[i].dur
    /\ (sources # <<>> /\ Last(sources).sFlushes = flushes)
           => nextStartTimeRef = Last(sources).nextAfter

\* one buffer queued behind the previous one, another that caught up with a
\* clock that had passed the previous end
C1_Witness ==
    \E i, j \in 1..Len(sources) :
        /\ sources[i].prevNext > sources[i].now
        /\ sources[j].prevNext < sources[j].now
        /\ sources[j].prevNext > 0

\* C2: two buffers scheduled consecutively with no interruption between them
\* never overlap, start(n+1) >= start(n) + duration(n), and are scheduled in
\* arrival order.
C2_NoOverlap ==
    \A i \in 1..(Len(sources) - 1) :
        /\ sources[i].msgNo < sources[i + 1].msgNo
        /\ sources[i].sFlushes = sources[i + 1].sFlushes
              => sources[i + 1].start >= sources[i].start + sources[i].dur

\* the second buffer arrived while the first was playing and starts exactly
\* at its end
C2_Witness ==
    \E i \in 1..(Len(sources) - 1) :
        /\ sources[i].sFlushes = sources[i + 1].sFlushes
        /\ sources[i + 1].now > sources[i].start
        /\ sources[i + 1].now < sources[i].start + sources[i].dur
        /\ sources[i + 1].start = sources[i].start + sources[i].dur

\* C3: inbound messages are handled in delivery order: when a buffer is
\* scheduled, no interrupted block of a message delivered after its packet
\* has run.
C3_DeliveryOrder ==
    \A i \in 1..Len(sources) : sources[i].flushedBy < sources[i].msgNo

\* a packet that was scheduled, then flushed by an Interrupted delivered after
\* it, followed by a packet scheduled after that flush
C3_Witness ==
    \E i, j \in 1..Len(sources) :
        /\ sources[i].msgNo < sources[j].flushedBy
        /\ sources[i].cutAt # NoCut
        /\ sources[j].flushedBy > 0

C7_IdleIffNoOutstanding ==
    pending = <<>> => (isAiTalking <=> audioSourcesRef # {})

-----------------------------------------------------------------------------
(* Properties of the session, checked under Spec.                            *)

\* C8: a captured block handled while the mute flag is set sends no packet and
\* reports level zero; a block handled while it is clear is transmitted.
C8_MuteGatesUplink ==
    [][\A p \in 1..Len(processors) : \A level \in Levels :
          OnAudioProcess(p, level) =>
              /\ isMuted => (~lastPacket'.sent /\ micLevel' = 0)
              /\ ~isMuted => lastPacket'.sent]_vars

\* C9: a stream obtained by the video-only retry reports audioInputAvailable
\* false (while the component is mounted: its state is gone afterwards), no
\* audio processor is ever created on it and no audio packet is ever sent
\* from it.
C9_VideoOnlyNoAudioTap ==
    /\ (mounted /\ streamRef # 0 /\ ~streams[streamRef].audio)
           => ~audioInputAvailable
    /\ \A p \in 1..Len(processors) : streams[processors[p].stream].audio
    /\ (lastPacket.tap = "audio" /\ lastPacket.sent)
           => streams[lastPacket.stream].audio

\* a live session on a video-only stream: frames flow, no processor exists
C9_Witness ==
    /\ streamRef # 0 /\ ~streams[streamRef].audio
    /\ isActive
    /\ \E k \in 1..Len(sessions) :
          sessions[k].state = "open" /\ ~sessions[k].capAudio
    /\ processors = <<>>
    /\ lastPacket.tap = "frame"

\* C10: when the handshake timer of a session that has not opened expires, a
\* handshake-timeout error is reported and the session leaves Connecting; when
\* Opened arrives, the timer of that session is cancelled.
C10_HandshakeTimer ==
    [][\A k \in 1..Len(sessions) :
          /\ (HandshakeTimeout(k) /\ sessions[k].state = "connecting")
                 => (error' = "timeout" /\ ~isConnecting')
          /\ OnOpen(k) => k \notin timers']_vars

\* C11: no audio or frame packet is sent before Opened (a frame interval or
\* an audio processor belongs only to a session that has opened); on the
\* Opened of the session in progress (sessionPromiseRef still holds it) the
\* session moves Connecting -> Live and the frame tap starts, and an audio
\* tap starts exactly when audio capture is available.
C11_OpenedStartsTaps ==
    [][/\ \A k \in intervals' : sessions'[k].state # "connecting"
       /\ \A p \in 1..Len(processors') :
             sessions'[processors'[p].session].state # "connecting"
       /\ \A k \in 1..Len(sessions) :
             (OnOpen(k) /\ sessionPromiseRef = k) =>
                 /\ sessions[k].state = "connecting"
                 /\ sessions'[k].state = "open"
                 /\ isActive' /\ ~isConnecting'
                 /\ k \in intervals'
                 /\ (Len(processors') = Len(processors) + 1)
                        <=> audioInputAvailable]_vars

\* C12: a transport error in Connecting or Live, the component being mounted,
\* leaves isActive and isConnecting both false and records an error; the
\* recorded error is the entitlement one exactly when the remote reported the
\* requested model as not found, and the interrupted-stream one for any other
\* drop.
C12_ErrorKinds ==
    [][\A k \in 1..Len(sessions) : \A e \in TransportErrors :
          (OnError(k, e) /\ mounted) =>
              /\ sessions[k].state \in {"connecting", "open"}
              /\ ~isActive' /\ ~isConnecting'
              /\ sessions'[k].state = "errored"
              /\ error' \in {"modelNotFound", "dropped"}
              /\ (error' = "modelNotFound") <=> (e = "notFound")]_vars

\* a session that had opened (its frame interval exists) was refused for the
\* missing model
C12_Witness ==
    \E k \in 1..Len(sessions) :
        /\ sessions[k].state = "errored"
        /\ k \in intervals
        /\ error = "modelNotFound"
        /\ mounted
        /\ ~isActive /\ ~isConnecting

\* session k was closed: cleanup cleared sessionPromiseRef (line 743), or a
\* later handleStartSession replaced it
SessionClosed(k) == sessionPromiseRef # k

\* cleanup invoked by itself, as a second close runs it
CleanupOnly ==
    /\ Cleanup
    /\ UNCHANGED <<clock, nextStartTimeRef, audioSourcesRef, isAiTalking,
                   pending, delivered, flushes, lastFlushMsg, preFlushNext,
                   freshFlush, hasStarted, error, isMuted,
                   audioInputAvailable, frameIntervalRef, connectTimeoutRef,
                   audioCtxRef, scriptProcessorRef, acqs, acquired, sessions,
                   lastPacket, mounted, mvars, fvars>>

\* C13: a close (reset, or cancel/unmount) leaves every capture track stopped
\* and the stream handle released, no frame interval and no handshake timer
\* armed, every outstanding audio source stopped, every transport session
\* closed and the audio contexts released; and no tap callback of a closed
\* session sends a packet afterwards.
C13_CloseReleasesAll ==
    [][/\ (HandleReset \/ Unmount) =>
              /\ \A i \in 1..Len(streams') : ~streams'[i].live
              /\ streamRef' = 0
              /\ intervals' = {}
              /\ timers' = {}
              /\ \A i \in audioSourcesRef' : sources'[i].cutAt # NoCut
              /\ \A k \in 1..Len(sessions') :
                    sessions'[k].state \notin {"connecting", "open"}
              /\ audioCtxRef' # 0 => audioCtxRef' \in closedCtx'
       /\ \A k \in intervals :
             (OnFrameInterval(k) /\ lastPacket'.sent) => ~SessionClosed(k)
       /\ \A p \in 1..Len(processors) : \A level \in Levels :
             (OnAudioProcess(p, level) /\ lastPacket'.sent)
                 => ~SessionClosed(processors[p].session)]_vars

\* C14: an Opened that arrives for a session after its close is discarded: it
\* starts no frame interval and no audio processor and changes no session
\* state.
C14_LateEventsDiscarded ==
    [][\A k \in 1..Len(sessions) :
          (OnOpen(k) /\ SessionClosed(k)) =>
              UNCHANGED <<intervals, processors, frameIntervalRef,
                          scriptProcessorRef, isActive, isConnecting>>]_vars

\* C15: in the state a close leaves, a second close changes nothing and
\* raises no error.
C15_CloseIdempotent ==
    [][(HandleReset \/ Unmount) =>
          /\ ~(ENABLED (CleanupOnly /\ vars' # vars))'
          /\ ~CloseRejects(audioCtxRef', closedCtx')]_vars

\* ---------------------------------------------------------------------------
\* Timeline monitor of the result page
\* ---------------------------------------------------------------------------

\* the longest time between two animation frames while the video plays
TickSpan == MaxTickGap * StepTime

\* the list is ordered by timestamp
Ordered(evs) == \A i \in 1..(Len(evs) - 1) : evs[i] < evs[i + 1]

\* consecutive timestamps are further apart than one tick
Spaced(evs) == \A i \in 1..(Len(evs) - 1) : evs[i + 1] - evs[i] > TickSpan

\* the timestamps of the events before the i-th of the list
Earlier(i) == {events[j] : j \in 1..(i - 1)}

\* the monitor is enabled and the user has done nothing but press play
ContinuousPlay ==
    /\ smartPlayEnabled
    /\ disturbed = 0
    /\ Ordered(events)
    /\ Spaced(events)

\* a frame that matches triggers the next event of the list that has not been
\* triggered, no flag is ever cleared, and at the end every event is consumed
TriggersInOrder ==
    /\ (MonitorFrames /\ Polls /\ FrameMatch # 0) =>
           /\ processedTimestamps = Earlier(FrameMatch)
           /\ processedTimestamps' = Earlier(FrameMatch + 1)
           /\ videoPaused'
           /\ videoTime' = events[FrameMatch]
           /\ currentDisplayFeedback' = FrameMatch
    /\ processedTimestamps \subseteq processedTimestamps'
    /\ (videoPaused' /\ videoTime' = VideoDuration) =>
           processedTimestamps' = Earlier(Len(events) + 1)

\* C16: with the monitor enabled and an ordered list whose consecutive
\* timestamps are further apart than one tick, playing forward from 0 to the
\* end without seeks triggers each event exactly once, in timestamp order
C16_ForwardPlay == [][ContinuousPlay' => TriggersInOrder]_vars

\* the i-th event can trigger: the monitor is enabled, the flag of its
\* timestamp is clear and the monitor has not observed a position beyond it
Pending(i) ==
    /\ smartPlayEnabled
    /\ events[i] \notin processedTimestamps
    /\ lastCheckTimeRef <= events[i]

\* this step is a frame that triggers the timestamp of the i-th event
Triggers(i) ==
    /\ MonitorFrames
    /\ Polls
    /\ FrameMatch # 0
    /\ events[FrameMatch] = events[i]
    /\ videoPaused'
    /\ videoTime' = events[i]
    /\ currentDisplayFeedback' = FrameMatch
    /\ events[i] \in processedTimestamps'

C18_ClearingRule ==
    [][MonitorFrames =>
          IF Polls
          THEN IF videoTime < lastCheckTimeRef - BackSeek
               THEN processedTimestamps' =
                        {t \in processedTimestamps : t <= videoTime}
               ELSE processedTimestamps \subseteq processedTimestamps'
          ELSE processedTimestamps' = processedTimestamps]_vars

\* a tick has seen a backward seek: the flag of a later event is clear while
\* its payload is still presented, and the flag of an earlier event is kept
C18_Witness ==
    \E i, j \in 1..Len(events) :
        /\ Polls
        /\ sinceFrame = 0
        /\ lastCheckTimeRef = videoTime
        /\ events[i] \in processedTimestamps
        /\ events[i] <= videoTime
        /\ events[j] \notin processedTimestamps
        /\ events[j] > videoTime
        /\ currentDisplayFeedback = j

\* the unconsumed events whose timestamps lie in the closed interval from the
\* position polled last to the position polled now
Hits ==
    {i \in 1..Len(events) :
        /\ lastCheckTimeRef <= events[i]
        /\ events[i] <= videoTime
        /\ events[i] \notin processedTimestamps}

\* C19: on a tick in which at least one unconsumed event has its timestamp in
\* [prev, curr], exactly one event, the earliest such, is matched: the video
\* is paused, its position is set to that timestamp, the event is marked
\* consumed and its payload is presented, and no other in-range event is
\* consumed in that tick
C19_EarliestMatch ==
    [][(MonitorFrames /\ Polls /\ Hits # {}) =>
          \E m \in Hits :
              /\ \A j \in Hits : events[m] <= events[j]
              /\ videoPaused'
              /\ videoTime' = events[m]
              /\ events[m] \in processedTimestamps'
              /\ currentDisplayFeedback' = m
              /\ \A j \in Hits \ {m} : events[j] \notin processedTimestamps']_vars

\* the dwell of a matched event: the monitor is enabled, the video is paused
\* at the timestamp of the event, the payload is presented and the resume
\* timer is pending
Dwell ==
    /\ smartPlayEnabled
    /\ videoPaused
    /\ currentDisplayFeedback # 0
    /\ videoTime = events[currentDisplayFeedback]
    /\ resumeTimer # NoTimer

\* C20: a match arms the timer with 3 s; while the monitor stays enabled and
\* the video stays paused with no user intervention the payload stays
\* presented and the timer counts the time down, and at 3 s the payload is
\* cleared and playback resumes from the same position; when at expiry the
\* monitor is disabled or the video is not paused, the timer clears the payload
\* and does not start playback
C20_DwellTimer ==
    [][/\ (MonitorFrames /\ Polls /\ FrameMatch # 0) =>
              (Dwell' /\ resumeTimer' = DwellTime)
       /\ (Dwell /\ disturbed' = disturbed /\ ~UserPlay) =>
              \/ /\ Dwell'
                 /\ \/ resumeTimer' = resumeTimer
                    \/ resumeTimer > 0 /\ resumeTimer' = resumeTimer - StepTime
                 /\ UNCHANGED <<videoTime, currentDisplayFeedback>>
              \/ /\ resumeTimer = 0
                 /\ resumeTimer' = NoTimer
                 /\ currentDisplayFeedback' = 0
                 /\ ~videoPaused'
                 /\ videoTime' = videoTime
       /\ (ResumeTimerFires /\ ~(smartPlayEnabled /\ videoPaused)) =>
              /\ currentDisplayFeedback' = 0
              /\ UNCHANGED <<videoPaused, videoTime>>]_vars

\* the timer has expired after an undisturbed dwell: the payload is cleared
\* and the video plays again from the timestamp of the consumed event
C20_Witness ==
    \E i \in 1..Len(events) :
        /\ disturbed = 0
        /\ smartPlayEnabled
        /\ ~videoPaused
        /\ videoTime = events[i]
        /\ events[i] \in processedTimestamps
        /\ currentDisplayFeedback = 0
        /\ resumeTimer = NoTimer

\* this step is the user starting playback: the play button, or a jump to a
\* timestamp of the list
ManualResume ==
    \/ UserPlay
    \/ UserReplay
    \/ \E i \in 1..Len(events) : JumpToTime(i)

\* C21: disabling the monitor during the dwell of an event cancels the pending
\* auto-resume and clears the presented payload at once, leaving the video
\* paused where it is; a paused video with no resume timer pending stays
\* paused with no timer pending, whether the monitor is disabled or enabled
\* again, until the user resumes playback
C21_DisableCancelsResume ==
    [][/\ (ToggleSmartPlay /\ Dwell) =>
              /\ ~smartPlayEnabled'
              /\ resumeTimer' = NoTimer
              /\ currentDisplayFeedback' = 0
              /\ videoPaused'
              /\ videoTime' = videoTime
       /\ (videoPaused /\ resumeTimer = NoTimer /\ ~ManualResume) =>
              /\ videoPaused'
              /\ resumeTimer' = NoTimer
              /\ ~ENABLED ResumeTimerFires]_vars

\* the monitor was disabled during a dwell and enabled again: the video is
\* still paused at the timestamp of the consumed event, nothing is presented
\* and no timer is pending
C21_Witness ==
    \E i \in 1..Len(events) :
        /\ disturbed = 1
        /\ smartPlayEnabled
        /\ videoPaused
        /\ videoTime = events[i]
        /\ events[i] \in processedTimestamps
        /\ videoTime < VideoDuration
        /\ currentDisplayFeedback = 0
        /\ resumeTimer = NoTimer
        /\ sinceFrame = 0

\* C22: when the user resumes playback by hand while the dwell timer of an
\* event is pending, the timer is cancelled
C22_ManualResumeCancels ==
    [][(UserPlay /\ Dwell) => resumeTimer' = NoTimer]_vars

\* C23: a seek forward, during monitored playback, over an event that is not
\* consumed skips the event: the frame that follows the seek does not match
\* it, so there is no pause, no seek back to its timestamp and no payload
C23_ForwardSeekSkips ==
    [][\A t \in SeekTargets : \A i \in 1..Len(events) :
          (/\ UserSeek(t)
           /\ Polls
           /\ lastCheckTimeRef <= videoTime
           /\ videoTime < events[i]
           /\ events[i] < t
           /\ events[i] \notin processedTimestamps)
          => FrameMatch' # i]_vars

\* C30: a packet whose decode fails is skipped: the handler leaves
\* nextStartTimeRef and the outstanding sources as they were, and still
\* handles the rest of the message, so the interruption flush of a message
\* flagged interrupted runs
C30_MalformedSkipped ==
    [][(DecodeResume /\ ~DecodeOk(Head(pending).msg)) =>
          /\ Len(sources') = Len(sources)
          /\ IF Head(pending).msg.interrupted
             THEN /\ lastFlushMsg' = Head(pending).msgNo
                  /\ audioSourcesRef' = {}
                  /\ nextStartTimeRef' = 0
                  /\ ~isAiTalking'
             ELSE /\ sources' = sources
                  /\ audioSourcesRef' = audioSourcesRef
                  /\ nextStartTimeRef' = nextStartTimeRef]_vars

\* the annotation has been laid out
Placed == box # NoBox

\* C24: for every target x and label width, the box of an annotation with
\* side "left" has its left edge at or beyond the margin, the box of one with
\* side "right" has its right edge at or before width minus the margin, and
\* the box has its full width
C24_HorizontalClamp ==
    Placed =>
        /\ box.x2 - box.x1 = BoxTotalWidth(canvas, item)
        /\ item.label_side = "left" => box.x1 >= EdgeMargin * PixelUnit
        /\ item.label_side = "right" =>
               box.x2 <= (canvas.width - EdgeMargin) * PixelUnit

\* a left box that was pushed right to the margin, its full width kept
C24_Witness ==
    /\ Placed
    /\ item.label_side = "left"
    /\ item.x = 10
    /\ box.x1 = EdgeMargin * PixelUnit
    /\ box.x2 > item.x * canvas.width

\* C25 as stated: for every target y the whole box lies within the top and
\* bottom margins
C25_Original ==
    Placed =>
        /\ box.y1 >= EdgeMargin * PixelUnit
        /\ box.y2 <= (canvas.height - EdgeMargin) * PixelUnit

\* the box, of its full height, centred on the target's y
Centred ==
    box.y1 = item.y * canvas.height - BoxTotalHeight(canvas) \div 2

\* C25: the box has its full height and its bottom edge is at or above height
\* minus the margin; when the frame is high enough to hold the box between
\* the two margins, the top edge is at or below the margin too, and the box is
\* centred on the target's y whenever the centred box lies within the margins
C25_VerticalClamp ==
    Placed =>
        LET lo == EdgeMargin * PixelUnit
            hi == (canvas.height - EdgeMargin) * PixelUnit
            boxH == BoxTotalHeight(canvas)
            mid == item.y * canvas.height
        IN /\ box.y2 - box.y1 = boxH
           /\ box.y2 <= hi
           /\ boxH <= hi - lo =>
                  /\ box.y1 >= lo
                  /\ (mid - boxH \div 2 >= lo /\ mid + boxH \div 2 <= hi) => Centred
                  /\ mid - boxH \div 2 < lo => box.y1 = lo
                  /\ mid + boxH \div 2 > hi => box.y2 = hi

\* a box near the bottom edge that was pushed up to the margin
C25_Witness ==
    /\ Placed
    /\ item.y = 100
    /\ box.y2 = (canvas.height - EdgeMargin) * PixelUnit
    /\ box.y1 >= EdgeMargin * PixelUnit
    /\ ~Centred

\* the call of audioResample has returned
Resampled == resampledData # NoData

\* every sample of the block is a float of [-1, 1]
InUnitRange == \A i \in DOMAIN inputData : inputData[i] = ClampUnit(inputData[i])

\* C26: at a source rate equal to the target rate the output has the length
\* of the input, and each output sample is round(input * 32767) clamped to
\* [-32768, 32767], for every input sample of [-1, 1]
C26_SameRateQuantises ==
    (Resampled /\ sampleRate = TargetRate /\ InUnitRange) =>
        /\ Len(resampledData) = Len(inputData)
        /\ \A i \in DOMAIN inputData :
               LET rounded == (2 * inputData[i] * 32767 + SampleScale)
                                  \div (2 * SampleScale)
               IN resampledData[i] = Max(0 - 32768, Min(32767, rounded))

\* C27: at 48000 Hz the output has the length of the input divided by 3,
\* rounded up, and output sample i is the 16-bit conversion of input sample
\* 3 * i, which is the only sample read for it
C27_Decimation ==
    (Resampled /\ sampleRate = 48000) =>
        /\ Len(resampledData) * 3 >= Len(inputData)
        /\ (Len(resampledData) - 1) * 3 < Len(inputData)
        /\ \A i \in 0..(Len(resampledData) - 1) :
               /\ 3 * i \in reads
               /\ resampledData[i + 1] = StoreSample(ClampUnit(inputData[3 * i + 1]))
        /\ \A r \in reads : r % 3 = 0

\* a block of five samples decimated to two, the second taken from sample 3
C27_Witness ==
    /\ Resampled
    /\ sampleRate = 48000
    /\ Len(inputData) = 5
    /\ Len(resampledData) = 2
    /\ inputData[4] # inputData[1]
    /\ inputData[4] # inputData[5]
    /\ inputData[4] # inputData[3]
    /\ resampledData[2] # resampledData[1]

\* C28: for every source rate and input length, each source index
\* floor(i * sourceRate / 16000) computed for an output sample is an index of
\* the input, so that no read falls outside the buffer
C28_ReadsInBounds ==
    Resampled =>
        /\ reads \subseteq 0..(Len(inputData) - 1)
        /\ \A i \in 0..(Len(resampledData) - 1) :
               sampleRate # TargetRate => (i * sampleRate) \div TargetRate \in reads

\* a block resampled at a rate that is no multiple of the target: two output
\* samples, read at indices 0 and floor(2.75625) = 2
C28_Witness ==
    /\ Resampled
    /\ sampleRate = 44100
    /\ Len(inputData) >= 4
    /\ Len(resampledData) = 2
    /\ reads = {0, 2}

\* the batch has ended and its list is the result shown
Published == currentScreen = "RESULT"

C39_NoWrapAround ==
    (Resampled /\ InUnitRange) =>
        \A i \in 1..Len(resampledData) :
            LET src == IF sampleRate = TargetRate
                       THEN inputData[i]
                       ELSE ReadSample(inputData, OriginalIndex(i - 1, sampleRate))
            IN /\ src > 0 => resampledData[i] >= 0
               /\ src < 0 => resampledData[i] <= 0
               /\ src = SampleScale => resampledData[i] = 32767

\* C32: at most one capture stream is live at any time: every acquired
\* stream other than the one streamRef refers to has had its tracks stopped
C32_OneLiveStream ==
    \A i \in 1..Len(streams) : streams[i].live => i = streamRef

\* C33: once the latest session has reported a connect failure or a transport
\* error, the expiry of its handshake timer leaves the error shown as it is
C33_FirstErrorStays ==
    [][\A k \in 1..Len(sessions) :
          (/\ HandshakeTimeout(k)
           /\ k = Len(sessions)
           /\ sessions[k].state \in {"failed", "errored"}
           /\ error # "none")
          => error' = error]_vars

\* C34: a device request that resolves after the component was closed hands
\* over a stream that is stopped and not retained
C34_LateStreamStopped ==
    [][(~mounted /\ (AcquireAV \/ AcquireVideoOnly)) =>
          /\ ~streams'[Len(streams')].live
          /\ streamRef' = 0]_vars

\* C35: in a session started after a reset, the first buffer scheduled on
\* the new output context starts at the current time of that context
C35_FreshStartAfterReset ==
    [][(/\ DecodeResume
        /\ DecodeOk(Head(pending).msg)
        /\ audioCtxRef > 1
        /\ \A s \in 1..Len(sources) : sources[s].ctx # audioCtxRef)
       => sources'[Len(sources')].start = clock]_vars

\* session k is the one of the component, not reset since it was started,
\* and its transport has reported an error or has closed
Ended(k) ==
    /\ k = Len(sessions)
    /\ hasStarted
    /\ sessions[k].state \in {"errored", "closed"}

\* C36: after a transport error or a remote close, and before a reset, the
\* audio tap and the frame tap of the session send no further packet
C36_TapsOnlyWhileLive ==
    [][/\ \A p \in 1..Len(processors), level \in Levels :
              (OnAudioProcess(p, level) /\ Ended(processors[p].session))
              => ~lastPacket'.sent
       /\ \A k \in 1..Len(sessions) :
              (OnFrameInterval(k) /\ Ended(k)) => ~lastPacket'.sent]_vars

\* the texts of the items of source src, joined in list order
RECURSIVE JoinTexts(_, _)
JoinTexts(list, src) ==
    IF list = <<>> THEN <<>>
    ELSE JoinTexts(SubSeq(list, 1, Len(list) - 1), src)
             \o (IF list[Len(list)].source = src
                 THEN list[Len(list)].text ELSE <<>>)

\* the last item is an AI item whose text ends in none of '.', '!' and '?'
OpenSentence(list) ==
    /\ list # <<>>
    /\ list[Len(list)].source = "ai"
    /\ \A c \in {".", "!", "?"} : ~EndsWith(list[Len(list)].text, c)

\* C31: a transcript delta is concatenated onto the last item exactly when
\* that item is an AI item whose text does not end in '.', '!' or '?', and is
\* appended as a new AI item otherwise; system items are never modified and
\* the AI items joined together are the deltas joined in delivery order
C31_Coalescing ==
    [][\A text \in Texts : OnTranscript(text) =>
          /\ IF OpenSentence(transcripts)
             THEN transcripts' = [transcripts EXCEPT
                                     ![Len(transcripts)].text = @ \o text]
             ELSE transcripts' = Append(transcripts,
                                        [source |-> "ai", text |-> text])
          /\ JoinTexts(transcripts', "system") = JoinTexts(transcripts, "system")
          /\ JoinTexts(transcripts', "ai") = JoinTexts(transcripts, "ai") \o text]_vars

\* a frame has just triggered an event and the j-th event is left over from
\* its interval: the dwell timer holds its full delay, the video is paused at
\* the timestamp of the presented event, and the timestamp of the j-th event
\* is unconsumed and lies between that timestamp and the position the frame
\* polled
Remaining(j) ==
    /\ j <= Len(events)
    /\ smartPlayEnabled
    /\ videoPaused
    /\ resumeTimer = DwellTime
    /\ currentDisplayFeedback # 0
    /\ videoTime = events[currentDisplayFeedback]
    /\ events[j] \notin processedTimestamps
    /\ videoTime <= events[j]
    /\ events[j] <= lastCheckTimeRef

\* C37: when several unconsumed events fall inside the interval of one tick,
\* none is lost: after the first is triggered and playback resumes from its
\* timestamp, each remaining one is triggered as playback continues forward
C37_NoneLost ==
    \A j \in 1..MaxEvents :
        Remaining(j) ~> (j <= Len(events) /\ events[j] \in processedTimestamps)

\* the monitor is disabled and playback has not reached the i-th event
Ahead(i) == i <= Len(events) /\ ~smartPlayEnabled /\ videoTime < events[i]

\* the monitor is disabled and playback is beyond the i-th event
Passed(i) == i <= Len(events) /\ ~smartPlayEnabled /\ videoTime > events[i]

\* a frame has just triggered the i-th event: the video is paused at its
\* timestamp, its payload is presented and the timer holds its full delay
Triggered(i) ==
    /\ i <= Len(events)
    /\ smartPlayEnabled
    /\ videoPaused
    /\ resumeTimer = DwellTime
    /\ currentDisplayFeedback = i
    /\ videoTime = events[i]

\* C38: while the monitor is disabled its frames and its timer neither pause
\* nor seek nor present a payload, and an event whose timestamp playback has
\* passed while the monitor was disabled is not triggered after the monitor is
\* enabled again
C38_DisabledIsInert ==
    /\ [][(~smartPlayEnabled /\ (MonitorFrames \/ ResumeTimerFires)) =>
             UNCHANGED <<videoTime, videoPaused, currentDisplayFeedback>>]_vars
    /\ \A i \in 1..MaxEvents :
           [](Ahead(i) => [](Passed(i) => []~Triggered(i)))

====
